---------------------------- MODULE Spec2Model ----------------------------
(***************************************************************************)
(* A model of stock_report.py: the holdings ledger (add_holding with its   *)
(* read_holdings / write_holdings round trip), the TWSE month resolver     *)
(* (fetch_twse_month / fetch_twse_latest), the TPEx snapshot lookup        *)
(* (get_tpex_row / parse_tpex_price) and the aggregation loop of           *)
(* generate_report.                                                        *)
(*                                                                         *)
(* Numbers.  The ledger file keeps lots and avg_cost with four decimals    *)
(* (write_holdings, '.4f').  In the ledger part every quantity and price   *)
(* is an integer count of "fine units"; the file keeps only multiples of   *)
(* Sub fine units, so Sub fine units stand for 0.0001.  An optional value  *)
(* (Python's None) is the empty sequence, a present value v is <<v>>.      *)
(***************************************************************************)
EXTENDS Integers, Sequences, FiniteSets, TLC

VARIABLES
    \* ---- ledger (data/holdings.csv and the history of add_holding calls)
    holdingsFile,   \* the rows of holdings.csv, in file order
    txns,           \* history: code -> sequence of <<lots, avg_cost>> passed to add_holding
    rebased,        \* history: code -> some call took the total_lots <= 0 branch
    lossy,          \* history: code -> some save rounded lots or avg_cost of the row
    lastCall,       \* history: the last add_holding call and what it computed
    calls,          \* number of add_holding calls so far
    \* ---- one call of fetch_twse_latest against a given pair of month payloads
    pTarget,        \* target_date
    pCur,           \* what the STOCK_DAY request for the target month answers
    pPrev,          \* what the STOCK_DAY request for the month before answers
    pResult,        \* what fetch_twse_latest returned (kind "pending" before the call)
    \* ---- one lookup in a TPEx snapshot
    sPayload,       \* what the TPEx request answers
    sCode,          \* the code looked up
    sResult,        \* what get_tpex_row and parse_tpex_price gave (kind "pending" before)
    \* ---- one run of generate_report
    holdings,       \* what read_holdings returned
    target_date,    \* yesterday
    tpex_all,       \* the snapshot fetch_tpex_latest_all returned
    idx,            \* the place in holdings of the next position of the loop
    items,          \* the position reports, in the order appended
    totals,         \* market_value, cost, pnl, day_pnl
    requests,       \* history: the requests sent, in order
    steps,          \* history: per position entered by the loop, what its resolution did
    failure,        \* history: the step that raised, "" while none has
    report_date,    \* the date in the report's title, absent until it is rendered
    pc              \* which entry point runs, and where it stands

ledgerVars == <<holdingsFile, txns, rebased, lossy, lastCall, calls>>
primaryVars == <<pTarget, pCur, pPrev, pResult>>
secondaryVars == <<sPayload, sCode, sResult>>
reportVars == <<holdings, target_date, tpex_all, idx, items, totals, requests, steps,
                failure, report_date>>

vars == <<ledgerVars, primaryVars, secondaryVars, reportVars, pc>>

\* the report variables of a behaviour that runs no report
ReportIdle ==
    /\ holdings = <<>> /\ target_date = <<>> /\ tpex_all = <<>> /\ idx = 0
    /\ items = <<>> /\ totals = <<>> /\ requests = <<>> /\ steps = <<>>
    /\ failure = "" /\ report_date = <<>>

None == <<>>
Some(v) == <<v>>

-----------------------------------------------------------------------------
(* Bounds of the model *)

\* number of add_holding calls explored
MaxCalls == 3
\* fine units per 0.0001, the precision write_holdings keeps
Sub == 2
\* rows in a month payload
MaxRows == 2
\* data rows in a TPEx snapshot
MaxSnapRows == 2
\* positions in the ledger a report runs over
MaxHoldings == 3
\* significand bits of the model's binary floating point (a Python float has 53)
Prec == 8

-----------------------------------------------------------------------------
(* Floats, dates and text fields *)

RECURSIVE Pow2(_)
Pow2(n) == IF n = 0 THEN 1 ELSE 2 * Pow2(n - 1)

RECURSIVE UlpOf(_, _)
\* the spacing of the floats around a >= 0: the least power of two u with a < 2^Prec * u
UlpOf(a, u) == IF a < Pow2(Prec) * u THEN u ELSE UlpOf(a, 2 * u)

\* the float nearest to the integer x: round to nearest, ties to even, as every
\* float operation of the program rounds its exact result
FRound(x) ==
    LET a == IF x < 0 THEN -x ELSE x
        u == UlpOf(a, 1)
        q == a \div u
        r == a % u
        m == IF 2 * r < u THEN q
             ELSE IF 2 * r > u THEN q + 1
             ELSE IF q % 2 = 0 THEN q ELSE q + 1
    IN  IF x < 0 THEN -(m * u) ELSE m * u

FAdd(x, y) == FRound(x + y)
FSub(x, y) == FRound(x - y)
FMul(x, y) == FRound(x * y)

\* the numeric texts of the model and the number float() reads from each, once
\* parse_float has stripped it and removed its commas
NumText ==
    ("0" :> 0) @@ ("1" :> 1) @@ ("+1" :> 1) @@ ("-1" :> -1) @@ ("2" :> 2) @@
    ("3" :> 3) @@ (" 3" :> 3) @@ ("4" :> 4) @@ ("5" :> 5) @@ ("7" :> 7) @@ ("1,005" :> 1005) @@
    ("11" :> 11) @@ ("12" :> 12)

\* parse_float: a placeholder ("--", "-", "") or a text float() rejects is absent
ParseFloat(s) ==
    IF s \in {"--", "-", ""} THEN None
    ELSE IF s \in DOMAIN NumText THEN Some(FRound(NumText[s]))
    ELSE None

IsLeap(y) == (y % 4 = 0 /\ y % 100 # 0) \/ y % 400 = 0

DaysInMonth(y, m) ==
    IF m = 2 THEN (IF IsLeap(y) THEN 29 ELSE 28)
    ELSE IF m \in {4, 6, 9, 11} THEN 30 ELSE 31

\* dt.date(y, m, d) raises ValueError outside the calendar
ValidDate(y, m, d) == m \in 1..12 /\ d >= 1 /\ d <= DaysInMonth(y, m)

Date(y, m, d) == [y |-> y, m |-> m, d |-> d]

\* a <= b on dt.date
DateLE(a, b) ==
    \/ a.y < b.y
    \/ a.y = b.y /\ a.m < b.m
    \/ a.y = b.y /\ a.m = b.m /\ a.d <= b.d

\* a date text is <<year, month, day>> as the pattern (\d+)/(\d+)/(\d+) reads it,
\* or <<>> when the pattern does not match
RocMatches(s) == s # <<>>

\* parse_roc_date on a text whose date is in the calendar
ParseRocDate(s) ==
    IF ~RocMatches(s) THEN None ELSE Some(Date(s[1] + 1911, s[2], s[3]))

\* parse_roc_date raises on this text
RocRaises(s) == RocMatches(s) /\ ~ValidDate(s[1] + 1911, s[2], s[3])

\* (target_date.replace(day=1) - timedelta(days=1)).replace(day=1)
PrevMonth(t) ==
    LET first == [t EXCEPT !.d = 1]
        lastOfPrev == IF first.m = 1
                      THEN Date(first.y - 1, 12, DaysInMonth(first.y - 1, 12))
                      ELSE Date(first.y, first.m - 1, DaysInMonth(first.y, first.m - 1))
    IN  [lastOfPrev EXCEPT !.d = 1]

-----------------------------------------------------------------------------
(* The primary source: fetch_twse_month, fetch_twse_latest *)

Raised == [kind |-> "raise", name |-> None, rows |-> <<>>]
NoMonth == [kind |-> "none", name |-> None, rows |-> <<>>]

\* the name in the title: the stock number as a word, the name, the fixed suffix
TitleName(title, stock_no) ==
    IF title # None /\ title[1].code = stock_no THEN Some(title[1].name) ELSE None

\* fetch_twse_month on the answer `resp` to its request: http_get or json.loads
\* raised, the stat is not "OK", a row is too short for r[6] and r[7] or holds a
\* date outside the calendar (both raise), or the parsed month
FetchTwseMonth(resp, stock_no) ==
    IF resp.kind = "raise" THEN Raised
    ELSE IF resp.stat # "OK" THEN NoMonth
    ELSE IF \E i \in 1..Len(resp.data) : resp.data[i].short \/ RocRaises(resp.data[i].date)
    THEN Raised
    ELSE [kind |-> "month",
          name |-> TitleName(resp.title, stock_no),
          rows |-> [i \in 1..Len(resp.data) |->
                        [date |-> ParseRocDate(resp.data[i].date),
                         close |-> ParseFloat(resp.data[i].close),
                         change |-> ParseFloat(resp.data[i].change)]]]

\* [r for r in month["rows"] if r["date"] and r["date"] <= target_date]
RowsUpTo(rows, target) ==
    SelectSeq(rows, LAMBDA r : r.date # None /\ DateLE(r.date[1], target))

RECURSIVE InsertByDate(_, _)
\* r put into the sorted rows after every row whose date is not later
InsertByDate(sorted, r) ==
    IF sorted = <<>> THEN <<r>>
    ELSE IF DateLE(sorted[Len(sorted)].date[1], r.date[1]) THEN Append(sorted, r)
    ELSE Append(InsertByDate(SubSeq(sorted, 1, Len(sorted) - 1), r), sorted[Len(sorted)])

RECURSIVE SortByDate(_)
\* rows.sort(key=lambda x: x["date"]): ascending and stable
SortByDate(rows) ==
    IF rows = <<>> THEN <<>>
    ELSE InsertByDate(SortByDate(SubSeq(rows, 1, Len(rows) - 1)), rows[Len(rows)])

NoRow == [date |-> None, close |-> None, change |-> None]
NoQuote(kind, asked) ==
    [kind |-> kind, name |-> None, latest |-> NoRow, prev |-> None, requests |-> asked]

\* the tail of fetch_twse_latest, from `if not rows: return None` on
LatestOf(month, rows, asked) ==
    IF rows = <<>> THEN NoQuote("none", asked)
    ELSE LET sorted == SortByDate(rows)
         IN  [kind |-> "quote", name |-> month.name,
              latest |-> sorted[Len(sorted)],
              prev |-> IF Len(sorted) >= 2 THEN Some(sorted[Len(sorted) - 1]) ELSE None,
              requests |-> asked]

\* a plausible slip: the retry asks for the target month again
RetryMonth_Same(target) == target

\* the month the retry asks for
RetryMonth(target) == PrevMonth(target)

\* the month a request names: date_str = target_date.strftime("%Y%m") + "01"
MonthOf(date) == [y |-> date.y, m |-> date.m]

\* fetch_twse_latest(stock_no, target_date), `cur` answering the request for the
\* target month and `prev` the request for the month before.  requests: the
\* months asked for, in order.
FetchTwseLatest(cur, prev, stock_no, target) ==
    LET month == FetchTwseMonth(cur, stock_no)
        req1 == <<MonthOf(target)>>
    IN  IF month.kind = "raise" THEN NoQuote("raise", req1)
        ELSE IF month.kind = "none" \/ month.rows = <<>> THEN NoQuote("none", req1)
        ELSE LET rows == RowsUpTo(month.rows, target)
             IN  IF rows # <<>> THEN LatestOf(month, rows, req1)
                 ELSE LET month2 == FetchTwseMonth(prev, stock_no)
                          req2 == Append(req1, MonthOf(RetryMonth(target)))
                      IN  IF month2.kind = "raise" THEN NoQuote("raise", req2)
                          ELSE IF month2.kind = "none" \/ month2.rows = <<>>
                          THEN NoQuote("none", req2)
                          ELSE LatestOf(month2, RowsUpTo(month2.rows, target), req2)

\* sequences over S of length at most n
SeqsUpTo(S, n) == UNION {[1..k -> S] : k \in 0..n}

RawRow(date, close, change) ==
    [short |-> FALSE, date |-> date, close |-> close, change |-> change]
ShortRow == [short |-> TRUE, date |-> <<>>, close |-> "", change |-> ""]

Json(stat, title, data) == [kind |-> "json", stat |-> stat, title |-> title, data |-> data]
HttpError == [kind |-> "raise", stat |-> "", title |-> None, data |-> <<>>]

TitleA == Some([code |-> "A", name |-> "Acme"])

\* rows a payload for January of ROC year 115 (2026) may hold
CurRows ==
    {RawRow(d, c, "+1") : d \in {<<115, 1, 1>>, <<115, 1, 2>>, <<>>}, c \in {"--", " 3"}}
        \cup {ShortRow, RawRow(<<115, 2, 30>>, "3", "+1")}

\* rows a payload for December of ROC year 114 (2025) may hold
PrevRows ==
    {RawRow(d, c, g) : d \in {<<114, 12, 30>>, <<114, 12, 31>>},
                       c \in {"--", "5", "7"}, g \in {"-1", "X"}}
        \cup {ShortRow}

CurAnswers ==
    {HttpError, Json("no data", None, <<>>)}
        \cup {Json("OK", TitleA, data) : data \in SeqsUpTo(CurRows, MaxRows)}

PrevAnswers ==
    {HttpError, Json("no data", None, <<>>)}
        \cup {Json("OK", t, data) : t \in {TitleA, None}, data \in SeqsUpTo(PrevRows, MaxRows)}

PrimaryTargets == {Date(2026, 1, 1), Date(2026, 1, 2)}

Pending == NoQuote("pending", <<>>)

InitPrimary ==
    /\ pc = "primary"
    /\ pTarget \in PrimaryTargets
    /\ pCur \in CurAnswers
    /\ pPrev \in PrevAnswers
    /\ pResult = Pending
    /\ holdingsFile = <<>> /\ txns = <<>> /\ rebased = <<>> /\ lossy = <<>>
    /\ lastCall = None /\ calls = 0
    /\ sPayload = None /\ sCode = "" /\ sResult = None
    /\ ReportIdle

\* fetch_twse_latest("A", target_date)
ResolvePrimary ==
    /\ pc = "primary"
    /\ pResult.kind = "pending"
    /\ pResult' = FetchTwseLatest(pCur, pPrev, "A", pTarget)
    /\ UNCHANGED <<ledgerVars, secondaryVars, reportVars, pTarget, pCur, pPrev, pc>>

NextPrimary == ResolvePrimary

SpecPrimary == InitPrimary /\ [][NextPrimary]_vars

-----------------------------------------------------------------------------
(* The secondary source: fetch_tpex_latest_all, get_tpex_row, parse_tpex_price *)
(* The header labels of the snapshot are written "code", "name", "close" and  *)
(* "change" here; a CSV row is the sequence of its cells.                     *)

NoSnapshot == [kind |-> "none", header |-> <<>>, rows |-> <<>>]
SnapshotRaised == [kind |-> "raise", header |-> <<>>, rows |-> <<>>]

\* fetch_tpex_latest_all on the answer to its request: http_get raised, or the
\* CSV rows with the empty ones dropped, the first one the header
FetchTpexLatestAll(payload) ==
    IF payload.kind = "raise" THEN SnapshotRaised
    ELSE LET lines == SelectSeq(payload.lines, LAMBDA r : r # <<>>)
         IN  IF lines = <<>> THEN NoSnapshot
             ELSE [kind |-> "table", header |-> Head(lines), rows |-> Tail(lines)]

\* hmap = {name: i for i, name in enumerate(header)} read by hmap.get(label, -1):
\* the 0-based place of the label, its last one when it is repeated, -1 without it
HGet(header, label) ==
    IF \E i \in 1..Len(header) : header[i] = label
    THEN (CHOOSE i \in 1..Len(header) :
            /\ header[i] = label
            /\ \A j \in (i + 1)..Len(header) : header[j] # label) - 1
    ELSE -1

\* row[i] raises IndexError (the rows are not empty, so row[-1] never does)
IndexRaises(row, i) == i >= Len(row)

\* row[i] for a 0-based i >= -1 that does not raise: row[-1] is the last cell
PyIndex(row, i) == IF i = -1 THEN row[Len(row)] ELSE row[i + 1]

\* r[h.get("code", -1)]
CodeCell(row, header) == PyIndex(row, HGet(header, "code"))

NoTpexRow == [kind |-> "none", row |-> <<>>]

RECURSIVE ScanRows(_, _, _)
\* the loop of get_tpex_row from row k on
ScanRows(data, code, k) ==
    IF k > Len(data.rows) THEN NoTpexRow
    ELSE IF IndexRaises(data.rows[k], HGet(data.header, "code"))
    THEN [kind |-> "raise", row |-> <<>>]
    ELSE IF CodeCell(data.rows[k], data.header) = code
    THEN [kind |-> "row", row |-> data.rows[k]]
    ELSE ScanRows(data, code, k + 1)

\* get_tpex_row(data, code)
GetTpexRow(data, code) ==
    IF data.kind # "table" THEN NoTpexRow ELSE ScanRows(data, code, 1)

NoPrice(kind) == [kind |-> kind, close |-> None, change |-> None, name |-> None]

\* parse_tpex_price(row, hmap)
ParseTpexPrice(row, header) ==
    LET ci == HGet(header, "close")
        gi == HGet(header, "change")
        ni == HGet(header, "name")
    IN  IF IndexRaises(row, ci) \/ IndexRaises(row, gi) \/ (ni >= 0 /\ IndexRaises(row, ni))
        THEN NoPrice("raise")
        ELSE [kind |-> "price",
              close |-> ParseFloat(PyIndex(row, ci)),
              change |-> ParseFloat(PyIndex(row, gi)),
              name |-> IF ni >= 0 THEN Some(PyIndex(row, ni)) ELSE None]

\* the else branch of generate_report: get_tpex_row, then parse_tpex_price on
\* the row found.  kind: "raise", "miss" (no row) or "price".
LookupSecondary(data, code) ==
    LET found == GetTpexRow(data, code)
    IN  IF found.kind = "raise" THEN NoPrice("raise")
        ELSE IF found.kind = "none" THEN NoPrice("miss")
        ELSE ParseTpexPrice(found.row, data.header)

Csv(lines) == [kind |-> "csv", lines |-> lines]
CsvError == [kind |-> "raise", lines |-> <<>>]

SnapHeaders ==
    {<<"code", "name", "close", "change">>,
     <<"name", "code", "change", "close", "volume">>,
     <<"code", "name", "change">>,
     <<"name", "close", "change">>,
     <<"code", "close", "change">>,
     <<"code", "name", "close">>,
     <<"code", "name", "close", "change", "volume">>}

SnapRows ==
    {<<"A", "Acme", "3", "+1">>,
     <<"Acme", "A", "+1", "3", "1,005">>,
     <<"B", "Bolt", "--", "-1">>,
     <<"11", "Eleven", "5", "0">>,
     <<"Eleven", "5", "11">>,
     <<"A", "Acme", "3">>,
     <<"B", "7">>,
     <<>>}

SnapPayloads ==
    {CsvError, Csv(<<>>)}
        \cup {Csv(<<h>> \o rows) : h \in SnapHeaders, rows \in SeqsUpTo(SnapRows, MaxSnapRows)}

SnapCodes == {"A", "B", "11"}

InitSecondary ==
    /\ pc = "secondary"
    /\ sPayload \in SnapPayloads
    /\ sCode \in SnapCodes
    /\ sResult = NoPrice("pending")
    /\ holdingsFile = <<>> /\ txns = <<>> /\ rebased = <<>> /\ lossy = <<>>
    /\ lastCall = None /\ calls = 0
    /\ pTarget = None /\ pCur = None /\ pPrev = None /\ pResult = None
    /\ ReportIdle

\* get_tpex_row(tpex_all, code) and parse_tpex_price(row, tpex_all["hmap"]) on
\* a snapshot fetch_tpex_latest_all returned
ResolveSecondary ==
    /\ pc = "secondary"
    /\ sResult.kind = "pending"
    /\ FetchTpexLatestAll(sPayload).kind # "raise"
    /\ sResult' = LookupSecondary(FetchTpexLatestAll(sPayload), sCode)
    /\ UNCHANGED <<ledgerVars, primaryVars, reportVars, sPayload, sCode, pc>>

NextSecondary == ResolveSecondary

SpecSecondary == InitSecondary /\ [][NextSecondary]_vars

-----------------------------------------------------------------------------
(* generate_report: the aggregation loop *)
(* Lots and prices are whole numbers here, held as floats of Prec bits.     *)

\* lots -> shares
LotSize == 1000

\* a plausible slip: the secondary source is consulted for every position
ConsultSecondary_Always(twse) == TRUE

\* the else branch of `if twse and twse.get("latest") and
\* twse["latest"].get("close") is not None`
ConsultSecondary(twse) == ~(twse.kind = "quote" /\ twse.latest.close # None)

\* a plausible slip: the guard lets a negative prior close through
DayPct_AnyPrev(close, change) ==
    IF change # None /\ FSub(close, change[1]) # 0
    THEN Some([num |-> FMul(change[1], 100), den |-> FSub(close, change[1])])
    ELSE None

\* day_pct = (change / prev) * 100 when change is present and prev = close -
\* change > 0; the quotient is kept as the fraction num/den (no claim reads
\* its digits)
DayPct(close, change) ==
    IF change # None /\ FSub(close, change[1]) > 0
    THEN Some([num |-> FMul(change[1], 100), den |-> FSub(close, change[1])])
    ELSE None

\* a plausible slip: the cost basis is taken per lot, not per share
Valuation_CostPerLot(lots, avg_cost, close, change) ==
    LET shares == FMul(lots, LotSize)
    IN  [market_value |-> FMul(close, shares),
         cost |-> FMul(avg_cost, lots),
         pnl |-> FMul(FSub(close, avg_cost), shares),
         day_pnl |-> FMul(IF change # None THEN change[1] ELSE 0, shares)]

\* shares, market_value, cost, pnl and day_pnl of one resolved position
Valuation(lots, avg_cost, close, change) ==
    LET shares == FMul(lots, LotSize)
    IN  [market_value |-> FMul(close, shares),
         cost |-> FMul(avg_cost, shares),
         pnl |-> FMul(FSub(close, avg_cost), shares),
         day_pnl |-> FMul(IF change # None THEN change[1] ELSE 0, shares)]

\* a plausible slip: day_pnl is left out of the totals
Accumulate_NoDayPnl(t, v) ==
    [market_value |-> FAdd(t.market_value, v.market_value),
     cost |-> FAdd(t.cost, v.cost),
     pnl |-> FAdd(t.pnl, v.pnl),
     day_pnl |-> t.day_pnl]

\* totals[...] += ... for the four totals
Accumulate(t, v) ==
    [market_value |-> FAdd(t.market_value, v.market_value),
     cost |-> FAdd(t.cost, v.cost),
     pnl |-> FAdd(t.pnl, v.pnl),
     day_pnl |-> FAdd(t.day_pnl, v.day_pnl)]

ZeroTotals == [market_value |-> 0, cost |-> 0, pnl |-> 0, day_pnl |-> 0]

\* the item of a position without a close
ErrorItem(code, name, source) ==
    [code |-> code, name |-> name,
     source |-> IF source # None THEN source[1] ELSE "-",
     error |-> "No price data"]

\* the item of a resolved position
PriceItem(h, name, source, price_date, close, change, v, news) ==
    [code |-> h.code, name |-> name, source |-> source[1], date |-> price_date,
     close |-> close, change |-> change, day_pct |-> DayPct(close, change),
     lots |-> h.lots, avg_cost |-> h.avg_cost,
     market_value |-> v.market_value, cost |-> v.cost, pnl |-> v.pnl,
     day_pnl |-> v.day_pnl, news |-> news]

\* i.get("error")
IsError(item) == "error" \in DOMAIN item

\* the loop body from `if close is None` on, for the primary result twse and
\* the secondary result tpex (kind "unused" when the secondary was not consulted)
Aggregate(h, twse, tpex, newsAnswer, target, t) ==
    LET consult == tpex.kind # "unused"
        source == IF ~consult THEN Some("TWSE")
                  ELSE IF tpex.kind = "price" THEN Some("TPEx") ELSE None
        name == IF ~consult THEN twse.name ELSE tpex.name
        close == IF ~consult THEN twse.latest.close ELSE tpex.close
        change == IF ~consult THEN twse.latest.change ELSE tpex.change
        price_date == IF ~consult THEN twse.latest.date ELSE None
        reqs == [i \in 1..Len(twse.requests) |->
                    [src |-> "TWSE", code |-> h.code, month |-> twse.requests[i]]]
        step == [twse |-> twse.kind, twseClose |-> twse.latest.close,
                 lookups |-> IF consult THEN 1 ELSE 0, close |-> close]
        base == [out |-> "raise", failure |-> "", reqs |-> reqs, step |-> step,
                 item |-> <<>>, totals |-> t]
    IN  IF twse.kind = "raise"
        THEN [base EXCEPT !.failure = IF Len(twse.requests) = 1 THEN "primary" ELSE "retry"]
        ELSE IF tpex.kind = "raise"
        THEN [base EXCEPT !.failure = "lookup"]
        ELSE IF close = None
        THEN [base EXCEPT !.out = "error", !.item = ErrorItem(h.code, name, source)]
        ELSE LET v == Valuation(h.lots, h.avg_cost, close[1], change)
                 withNews == [base EXCEPT !.reqs = Append(reqs, [src |-> "NEWS", code |-> h.code,
                                                                 month |-> MonthOf(target)]),
                                          !.totals = Accumulate(t, v)]
             IN  IF newsAnswer = "raise"
                 THEN [withNews EXCEPT !.failure = "news"]
                 ELSE [withNews EXCEPT !.out = "item",
                                       !.item = PriceItem(h, name, source, price_date,
                                                          close[1], change, v, newsAnswer)]

\* the loop body after fetch_twse_latest returned twse (or raised): the
\* secondary lookup when the primary gave no close
Resolve(h, twse, newsAnswer, target, snapshot, t) ==
    Aggregate(h, twse,
              IF twse.kind # "raise" /\ ConsultSecondary(twse)
              THEN LookupSecondary(snapshot, h.code)
              ELSE NoPrice("unused"),
              newsAnswer, target, t)

\* one pass of the loop body over position h, given the answers the requests
\* of this pass get.  out: "raise" (an exception leaves generate_report),
\* "error" (the item without a price) or "item".
LoopBody(h, cur, prev, newsAnswer, target, snapshot, t) ==
    Resolve(h, FetchTwseLatest(cur, prev, h.code, target), newsAnswer, target, snapshot, t)

\* the positions a ledger file may hold
HoldingPool ==
    {[code |-> "A", lots |-> 2, avg_cost |-> 2],
     [code |-> "B", lots |-> 1, avg_cost |-> 5],
     [code |-> "11", lots |-> -1, avg_cost |-> 3]}

\* ledgers: positions of distinct codes, in any order
Ledgers ==
    {l \in SeqsUpTo(HoldingPool, MaxHoldings) :
        \A i, j \in 1..Len(l) : i # j => l[i].code # l[j].code}

ReportTargets == {Date(2026, 1, 2), Date(2026, 3, 1)}

TitleOf(code) == Some([code |-> code, name |-> "Acme"])

\* what the request for the target month may answer when it gives no row
\* dated up to the target: an error, a malformed row, no data, only a later day
ReportCurUnusable(code) ==
    {HttpError, Json("OK", TitleOf(code), <<ShortRow>>),
     Json("no data", None, <<>>), Json("OK", TitleOf(code), <<>>)}

\* a target-month payload whose only row is dated after both targets
ReportCurLater(code) == Json("OK", None, <<RawRow(<<115, 3, 2>>, "3", "+1")>>)

\* target-month payloads with one row dated up to both targets
ReportCurUsable(code) ==
    {Json("OK", TitleOf(code), <<RawRow(<<115, 1, 2>>, r[1], r[2])>>) :
        r \in {<<"4", "+1">>, <<"3", "0">>, <<"3", " 3">>, <<"--", "+1">>}}

\* what the request for the month before may answer
ReportPrev(code) ==
    {HttpError, Json("no data", None, <<>>),
     Json("OK", TitleOf(code), <<RawRow(<<114, 12, 31>>, "7", "-1"),
                                  RawRow(<<114, 12, 30>>, "5", "+1")>>)}

\* the answers the two month requests for one code may get; the answer for the
\* month before is varied where the target month leads to the retry
ReportWorlds(code) ==
    {[cur |-> c, prev |-> HttpError] : c \in ReportCurUnusable(code) \cup ReportCurUsable(code)}
        \cup {[cur |-> ReportCurLater(code), prev |-> q] : q \in ReportPrev(code)}

ReportSnapshots ==
    {CsvError, Csv(<<>>),
     Csv(<<<<"code", "name", "close", "change">>,
           <<"B", "Bolt", "3", "0">>, <<"11", "Eleven", "5", "+1">>>>),
     Csv(<<<<"name", "code", "change", "close">>,
           <<"Acme", "A", "--", "4">>, <<"Bolt", "B", "5", "3">>>>),
     Csv(<<<<"code", "name", "change">>, <<"B", "Bolt", "+1">>>>),
     Csv(<<<<"code", "name", "close", "change">>, <<"B", "Bolt">>>>)}

NewsAnswers == {"raise", <<>>}

InitReport ==
    /\ pc = "start"
    /\ holdings \in Ledgers
    /\ target_date \in ReportTargets
    /\ tpex_all = NoSnapshot
    /\ idx = 0
    /\ items = <<>>
    /\ totals = ZeroTotals
    /\ requests = <<>>
    /\ steps = <<>>
    /\ failure = ""
    /\ report_date = None
    /\ holdingsFile = <<>> /\ txns = <<>> /\ rebased = <<>> /\ lossy = <<>>
    /\ lastCall = None /\ calls = 0
    /\ pTarget = None /\ pCur = None /\ pPrev = None /\ pResult = None
    /\ sPayload = None /\ sCode = "" /\ sResult = None

\* generate_report with no holdings: the message, return 1, no request sent
NoHoldings ==
    /\ pc = "start"
    /\ holdings = <<>>
    /\ pc' = "nodata"
    /\ UNCHANGED <<ledgerVars, primaryVars, secondaryVars, reportVars>>

\* generate_report up to the loop: the one request for the TPEx snapshot
FetchSnapshot ==
    /\ pc = "start"
    /\ holdings # <<>>
    /\ \E payload \in ReportSnapshots :
        LET snap == FetchTpexLatestAll(payload)
        IN  /\ requests' = Append(requests, [src |-> "TPEx", code |-> "", month |-> MonthOf(target_date)])
            /\ IF snap.kind = "raise"
               THEN /\ pc' = "aborted"
                    /\ failure' = "snapshot"
                    /\ UNCHANGED <<tpex_all, idx>>
               ELSE /\ pc' = "loop"
                    /\ tpex_all' = snap
                    /\ idx' = 1
                    /\ UNCHANGED failure
    /\ UNCHANGED <<ledgerVars, primaryVars, secondaryVars, holdings, target_date, items,
                   totals, steps, report_date>>

\* one pass of `for h in holdings`
ProcessHolding ==
    /\ pc = "loop"
    /\ idx <= Len(holdings)
    /\ \E b \in {LoopBody(holdings[idx], w.cur, w.prev, newsAnswer, target_date, tpex_all, totals) :
                    w \in ReportWorlds(holdings[idx].code), newsAnswer \in NewsAnswers} :
        /\ requests' = requests \o b.reqs
        /\ steps' = Append(steps, b.step)
        /\ totals' = b.totals
        /\ IF b.out = "raise"
           THEN /\ pc' = "aborted"
                /\ failure' = b.failure
                /\ UNCHANGED <<items, idx>>
           ELSE /\ items' = Append(items, b.item)
                /\ idx' = idx + 1
                /\ UNCHANGED <<pc, failure>>
    /\ UNCHANGED <<ledgerVars, primaryVars, secondaryVars, holdings, target_date, tpex_all,
                   report_date>>

\* the latest date among the items that carry one
MaxDate(ds) == CHOOSE d \in ds : \A e \in ds : DateLE(e, d)

\* after the loop: report_date = max(dates) if dates else target_date, and the
\* report is rendered and written
RenderReport ==
    /\ pc = "loop"
    /\ idx > Len(holdings)
    /\ LET dates == {items[i].date[1] : i \in {j \in 1..Len(items) :
                        ~IsError(items[j]) /\ items[j].date # None}}
       IN  report_date' = Some(IF dates # {} THEN MaxDate(dates) ELSE target_date)
    /\ pc' = "done"
    /\ UNCHANGED <<ledgerVars, primaryVars, secondaryVars, holdings, target_date, tpex_all,
                   idx, items, totals, requests, steps, failure>>

NextReport == NoHoldings \/ FetchSnapshot \/ ProcessHolding \/ RenderReport

SpecReport == InitReport /\ [][NextReport]_vars

-----------------------------------------------------------------------------
(* The ledger: read_holdings, write_holdings, add_holding *)

\* str.strip() on the codes the model passes
Strip(code) ==
    CASE code = " A" -> "A"
      [] code = "B " -> "B"
      [] OTHER -> code

CodesIn == {"A", " A", "B "}
LedgerCodes == {Strip(c) : c \in CodesIn}
\* lots given on the command line: on the 4-decimal grid and off it
LotsIn == {-2 * Sub, -Sub, Sub, 2 * Sub + 1}
\* avg_cost given on the command line: on the 4-decimal grid and off it
PriceIn == {2 * Sub, 5 * Sub, 5 * Sub + 1}

\* f"{x:.4f}" read back by float(): the multiples of Sub nearest to n/d (d > 0).
\* A value exactly half way goes either way: the binary float that holds it is
\* not the decimal tie, and '.4f' rounds the binary value.
Fmt4(n, d) ==
    LET step == d * Sub
        k == n \div step
        r == n - k * step
    IN  IF 2 * r < step THEN {k * Sub}
        ELSE IF 2 * r > step THEN {(k + 1) * Sub}
        ELSE {k * Sub, (k + 1) * Sub}

\* read_holdings: the rows of the file as in-memory rows; avg_cost is the
\* fraction avgN/avgD (a stored value has avgD = 1)
ReadHoldings ==
    [i \in 1..Len(holdingsFile) |->
        [code |-> Strip(holdingsFile[i].code),
         lots |-> holdingsFile[i].lots,
         avgN |-> holdingsFile[i].avg_cost,
         avgD |-> 1]]

\* write_holdings: every file content the save of `rows` can leave
WriteHoldings(rows) ==
    {f \in [1..Len(rows) -> [code : LedgerCodes,
                             lots : UNION {Fmt4(rows[i].lots, 1) : i \in 1..Len(rows)},
                             avg_cost : UNION {Fmt4(rows[i].avgN, rows[i].avgD) : i \in 1..Len(rows)}]] :
        \A i \in 1..Len(rows) :
            /\ f[i].code = rows[i].code
            /\ f[i].lots \in Fmt4(rows[i].lots, 1)
            /\ f[i].avg_cost \in Fmt4(rows[i].avgN, rows[i].avgD)}

\* a plausible slip: the re-base branch keeps the old average
UpdateRow_KeepAvg(r, lots, avg_cost) ==
    LET total_lots == r.lots + lots
    IN  IF total_lots <= 0
        THEN [r EXCEPT !.lots = total_lots]
        ELSE [r EXCEPT !.avgN = r.lots * r.avgN + lots * avg_cost * r.avgD,
                       !.avgD = total_lots * r.avgD,
                       !.lots = total_lots]

\* a plausible slip: the blend weighs the old average by the new total
UpdateRow_WrongWeight(r, lots, avg_cost) ==
    LET total_lots == r.lots + lots
    IN  IF total_lots <= 0
        THEN [r EXCEPT !.lots = total_lots, !.avgN = avg_cost, !.avgD = 1]
        ELSE [r EXCEPT !.avgN = total_lots * r.avgN + lots * avg_cost * r.avgD,
                       !.avgD = total_lots * r.avgD,
                       !.lots = total_lots]

\* add_holding, the body of `if r["code"] == code`
UpdateRow(r, lots, avg_cost) ==
    LET total_lots == r.lots + lots
    IN  IF total_lots <= 0
        THEN [r EXCEPT !.lots = total_lots, !.avgN = avg_cost, !.avgD = 1]
        ELSE [r EXCEPT !.avgN = r.lots * r.avgN + lots * avg_cost * r.avgD,
                       !.avgD = total_lots * r.avgD,
                       !.lots = total_lots]

\* the index of the first row of `rows` with this code, 0 when there is none
FindRow(rows, code) ==
    IF \E i \in 1..Len(rows) : rows[i].code = code
    THEN CHOOSE i \in 1..Len(rows) :
            /\ rows[i].code = code
            /\ \A j \in 1..(i - 1) : rows[j].code # code
    ELSE 0

\* add_holding: the rows in memory when write_holdings is called
AddHoldingRows(rows, code, lots, avg_cost) ==
    LET i == FindRow(rows, code)
    IN  IF i # 0
        THEN [rows EXCEPT ![i] = UpdateRow(rows[i], lots, avg_cost)]
        ELSE Append(rows, [code |-> code, lots |-> lots, avgN |-> avg_cost, avgD |-> 1])

InitLedger ==
    /\ holdingsFile = <<>>
    /\ txns = [c \in LedgerCodes |-> <<>>]
    /\ rebased = [c \in LedgerCodes |-> FALSE]
    /\ lossy = [c \in LedgerCodes |-> FALSE]
    /\ lastCall = [code |-> "", lots |-> 0, avg_cost |-> 0, row |-> 0,
                   existed |-> FALSE, total |-> 0, prevAvg |-> 0, prevLen |-> 0]
    /\ calls = 0
    /\ pc = "ledger"
    /\ pTarget = None /\ pCur = None /\ pPrev = None /\ pResult = None
    /\ sPayload = None /\ sCode = "" /\ sResult = None
    /\ ReportIdle

\* `python3 stock_report.py add <code> <lots> <avg_cost>`
AddHolding(codeArg, lots, avg_cost) ==
    /\ calls < MaxCalls
    /\ LET rows == ReadHoldings
           code == Strip(codeArg)
           i == FindRow(rows, code)
           mem == AddHoldingRows(rows, code, lots, avg_cost)
           at == IF i # 0 THEN i ELSE Len(mem)
       IN  /\ \E f \in WriteHoldings(mem) :
                /\ holdingsFile' = f
                /\ lossy' = [lossy EXCEPT ![code] =
                                \/ @
                                \/ f[at].lots # mem[at].lots
                                \/ f[at].avg_cost * mem[at].avgD # mem[at].avgN]
           /\ txns' = [txns EXCEPT ![code] = Append(@, <<lots, avg_cost>>)]
           /\ rebased' = [rebased EXCEPT ![code] = @ \/ (i # 0 /\ rows[i].lots + lots <= 0)]
           /\ lastCall' = [code |-> code, lots |-> lots, avg_cost |-> avg_cost, row |-> at,
                           existed |-> (i # 0),
                           total |-> IF i # 0 THEN rows[i].lots + lots ELSE lots,
                           prevAvg |-> IF i # 0 THEN rows[i].avgN ELSE 0,
                           prevLen |-> Len(rows)]
           /\ calls' = calls + 1
    /\ UNCHANGED <<primaryVars, secondaryVars, reportVars, pc>>

NextLedger ==
    \E codeArg \in CodesIn, lots \in LotsIn, avg_cost \in PriceIn :
        AddHolding(codeArg, lots, avg_cost)

SpecLedger == InitLedger /\ [][NextLedger]_vars

-----------------------------------------------------------------------------
(* Claims about generate_report *)

\* C1: a transport or parse failure of the primary month fetch, of the
\* prior-month retry or of the secondary snapshot fetch never aborts the run
\* (the step counts as unusable and the run goes on to a report).
C1_FailureNeverAborts ==
    ~(pc = "aborted" /\ failure \in {"primary", "retry", "snapshot"})

\* C3: a position whose primary resolution gave a close is never looked up in
\* the secondary source and is reported with source TWSE; a secondary lookup
\* happens only after the primary resolution gave nothing or an absent close.
C3_PrimaryFirst ==
    \A i \in 1..Len(steps) :
        /\ (steps[i].twse = "quote" /\ steps[i].twseClose # None) =>
                /\ steps[i].lookups = 0
                /\ i <= Len(items) => (~IsError(items[i]) /\ items[i].source = "TWSE")
        /\ steps[i].lookups > 0 =>
                (steps[i].twse = "none" \/ (steps[i].twse = "quote" /\ steps[i].twseClose = None))

\* C3 witness: a finished run in which one position was priced by the primary
\* source although the snapshot had a row for it, and another by the secondary.
C3_Witness ==
    /\ pc = "done"
    /\ \E i, j \in 1..Len(items) :
        /\ steps[i].lookups = 0 /\ ~IsError(items[i]) /\ items[i].source = "TWSE"
        /\ GetTpexRow(tpex_all, items[i].code).kind = "row"
        /\ steps[j].lookups = 1 /\ ~IsError(items[j]) /\ items[j].source = "TPEx"

RECURSIVE FloatSum(_, _)
\* field f added up over the resolved items, in order, as the loop adds: from 0.0
FloatSum(its, f) ==
    IF its = <<>> THEN 0
    ELSE LET front == FloatSum(SubSeq(its, 1, Len(its) - 1), f)
             last == its[Len(its)]
         IN  IF IsError(last) THEN front ELSE FAdd(front, last[f])

\* C4: in and after the loop each total is the sum of its field over exactly the
\* resolved position reports; a position without a close is in the output at its
\* ledger place, tagged "No price data", with no monetary field, and adds nothing.
C4_TotalsOverResolved ==
    pc \in {"loop", "done"} =>
        /\ Len(items) = Len(steps)
        /\ \A i \in 1..Len(items) :
            /\ items[i].code = holdings[i].code
            /\ IsError(items[i]) <=> steps[i].close = None
            /\ IsError(items[i]) =>
                    /\ items[i].error = "No price data"
                    /\ DOMAIN items[i] = {"code", "name", "source", "error"}
        /\ totals.market_value = FloatSum(items, "market_value")
        /\ totals.cost = FloatSum(items, "cost")
        /\ totals.pnl = FloatSum(items, "pnl")
        /\ totals.day_pnl = FloatSum(items, "day_pnl")

\* C4 witness: a finished run over three positions, one priced by TWSE, one by
\* TPEx, one without a price, with totals that are not zero.
C4_Witness ==
    /\ pc = "done"
    /\ Len(items) = 3
    /\ \E i, j, k \in 1..3 :
        /\ IsError(items[k])
        /\ ~IsError(items[i]) /\ items[i].source = "TWSE"
        /\ ~IsError(items[j]) /\ items[j].source = "TPEx"
    /\ totals.market_value # 0 /\ totals.day_pnl # 0

\* C7 as stated: every resolved report has pnl = market_value - cost exactly,
\* and so have the totals of a finished run.
C7_PnlIdentityExact ==
    /\ \A i \in 1..Len(items) :
        ~IsError(items[i]) => items[i].pnl = items[i].market_value - items[i].cost
    /\ pc = "done" => totals.pnl = totals.market_value - totals.cost

\* x is a float: rounding leaves it as it is
IsFloat(x) == FRound(x) = x

\* the products and the difference behind one report are exact in floating point
ExactValuation(it) ==
    LET shares == it.lots * LotSize
    IN  /\ IsFloat(shares)
        /\ IsFloat(it.close * shares)
        /\ IsFloat(it.avg_cost * shares)
        /\ IsFloat(it.close - it.avg_cost)
        /\ IsFloat((it.close - it.avg_cost) * shares)

RECURSIVE ExactSum(_, _)
\* field f added up over the resolved items without rounding
ExactSum(its, f) ==
    IF its = <<>> THEN 0
    ELSE LET front == ExactSum(SubSeq(its, 1, Len(its) - 1), f)
             last == its[Len(its)]
         IN  IF IsError(last) THEN front ELSE front + last[f]

\* every sum the loop formed for field f was exact in floating point
ExactSums(its, f) == \A k \in 1..Len(its) : IsFloat(ExactSum(SubSeq(its, 1, k), f))

\* C7 amended: a resolved report has pnl = market_value - cost exactly whenever
\* its floating-point products lots x 1000, close x shares, avg_cost x shares
\* and (close - avg_cost) x shares are exact (the same x1000 multiplier is in
\* all three); the totals agree likewise when, besides, their sums are exact.
\* Where a product is rounded the two sides differ by the rounding error.
C7_PnlIdentityWhenExact ==
    /\ \A i \in 1..Len(items) :
        (~IsError(items[i]) /\ ExactValuation(items[i])) =>
            items[i].pnl = items[i].market_value - items[i].cost
    /\ ( /\ pc \in {"loop", "done"}
         /\ \A i \in 1..Len(items) : ~IsError(items[i]) => ExactValuation(items[i])
         /\ ExactSums(items, "market_value") /\ ExactSums(items, "cost")
         /\ ExactSums(items, "pnl") )
        => totals.pnl = totals.market_value - totals.cost

\* C7 witness: a finished run with a resolved report whose close differs from
\* its avg_cost and whose products are exact, so the identity is met with a
\* pnl that is not zero.
C7_Witness ==
    /\ pc = "done"
    /\ \A i \in 1..Len(items) : ~IsError(items[i]) => ExactValuation(items[i])
    /\ ExactSums(items, "market_value") /\ ExactSums(items, "cost") /\ ExactSums(items, "pnl")
    /\ \E i \in 1..Len(items) : ~IsError(items[i]) /\ items[i].pnl # 0
    /\ totals.pnl # 0

\* C8 as stated: day_pct is present exactly when change is present and not
\* zero and close - change > 0.
C8_DayPctNonZeroChange ==
    \A i \in 1..Len(items) :
        ~IsError(items[i]) =>
            (items[i].day_pct # None <=>
                (/\ items[i].change # None
                 /\ items[i].change[1] # 0
                 /\ items[i].close - items[i].change[1] > 0))

\* C8 amended: day_pct is present exactly when change is present (zero
\* included, giving 0%) and the implied prior close, close - change, is
\* strictly positive; it is absent when change is absent or close - change <= 0,
\* and the divisor of a present day_pct is that positive prior close.
C8_DayPctGuard ==
    \A i \in 1..Len(items) :
        ~IsError(items[i]) =>
            /\ items[i].day_pct # None <=>
                (items[i].change # None /\ items[i].close - items[i].change[1] > 0)
            /\ items[i].day_pct # None =>
                /\ items[i].day_pct[1].den = items[i].close - items[i].change[1]
                /\ items[i].day_pct[1].den > 0

\* C8 witness: reports with a zero change (day_pct present), with change equal
\* to close (absent) and with a change above the close (absent).
C8_Witness ==
    /\ \E i \in 1..Len(items) :
        ~IsError(items[i]) /\ items[i].change = Some(0) /\ items[i].day_pct # None
    /\ \E i \in 1..Len(items) :
        ~IsError(items[i]) /\ items[i].change = Some(items[i].close) /\ items[i].day_pct = None
    /\ \E i \in 1..Len(items) :
        /\ ~IsError(items[i]) /\ items[i].change # None
        /\ items[i].change[1] > items[i].close /\ items[i].day_pct = None

\* the requests to the primary source for one code, in the order sent
TwseRequests(code) == SelectSeq(requests, LAMBDA r : r.src = "TWSE" /\ r.code = code)

\* the calendar month before a month
CalendarPrev(mo) == IF mo.m = 1 THEN [y |-> mo.y - 1, m |-> 12] ELSE [y |-> mo.y, m |-> mo.m - 1]

\* the place of a code in the ledger
PlaceOf(code) == CHOOSE i \in 1..Len(holdings) : holdings[i].code = code

\* C10: per symbol at most two requests go to the primary source, the target
\* month and then at most one for the calendar month before; at most one
\* request goes to the secondary source in the whole run; symbols are
\* processed in ledger order and the output keeps that order.
C10_RequestBounds ==
    /\ Cardinality({k \in 1..Len(requests) : requests[k].src = "TPEx"}) <= 1
    /\ \A i \in 1..Len(holdings) :
        LET rs == TwseRequests(holdings[i].code)
        IN  /\ Len(rs) <= 2
            /\ Len(rs) >= 1 => rs[1].month = MonthOf(target_date)
            /\ Len(rs) = 2 => rs[2].month = CalendarPrev(MonthOf(target_date))
    /\ \A k, l \in 1..Len(requests) :
        (k < l /\ requests[k].src = "TWSE" /\ requests[l].src = "TWSE") =>
            PlaceOf(requests[k].code) <= PlaceOf(requests[l].code)
    /\ \A k \in 1..Len(requests) : requests[k].src = "TPEx" => k = 1
    /\ Len(items) <= Len(holdings)
    /\ \A i \in 1..Len(items) : items[i].code = holdings[i].code

\* C10 witness: a finished run over three positions in which one symbol took
\* the retry and another did not.
C10_Witness ==
    /\ pc = "done"
    /\ Len(holdings) = 3 /\ Len(items) = 3
    /\ \E i, j \in 1..3 :
        /\ Len(TwseRequests(holdings[i].code)) = 2
        /\ Len(TwseRequests(holdings[j].code)) = 1
    /\ Cardinality({k \in 1..Len(requests) : requests[k].src = "TPEx"}) = 1

-----------------------------------------------------------------------------
(* Claims about the two sources *)

\* the date a payload row carries, as a calendar date
RowDate(raw) == Date(raw.date[1] + 1911, raw.date[2], raw.date[3])

\* every row of the payload is well formed and dated strictly before t
AllBefore(data, t) ==
    \A i \in 1..Len(data) :
        /\ ~data[i].short
        /\ RocMatches(data[i].date)
        /\ ~RocRaises(data[i].date)
        /\ DateLE(RowDate(data[i]), t)
        /\ RowDate(data[i]) # t

\* the case C2 is about: the target is the 1st, the target month's payload has
\* no rows at all, the month before has rows, all dated before the target
C2_Case ==
    /\ pTarget.d = 1
    /\ pCur.kind = "json" /\ pCur.stat = "OK" /\ pCur.data = <<>>
    /\ pPrev.kind = "json" /\ pPrev.stat = "OK" /\ pPrev.data # <<>>
    /\ AllBefore(pPrev.data, pTarget)

\* C2: with a target date on the 1st, an empty target-month dataset and a
\* non-empty prior-month dataset ending before the target, fetch_twse_latest
\* asks for the prior month and returns its latest row (maximum date).
C2_EmptyMonthRetries ==
    (pc = "primary" /\ pResult.kind # "pending" /\ C2_Case) =>
        /\ pResult.kind = "quote"
        /\ Len(pResult.requests) = 2
        /\ \E i \in 1..Len(pPrev.data) :
            /\ \A j \in 1..Len(pPrev.data) : DateLE(RowDate(pPrev.data[j]), RowDate(pPrev.data[i]))
            /\ pResult.latest.date = Some(RowDate(pPrev.data[i]))
            /\ pResult.latest.close = ParseFloat(pPrev.data[i].close)

\* the header of the snapshot a payload holds (empty without one)
HeaderOf(payload) == FetchTpexLatestAll(payload).header
HasLabel(payload, label) == \E i \in 1..Len(HeaderOf(payload)) : HeaderOf(payload)[i] = label

\* the cell of `row` under the (first) header column named `label`, as a set:
\* empty when the header has no such column or the row is too short
CellsUnder(payload, row, label) ==
    {row[i] : i \in {j \in 1..Len(HeaderOf(payload)) :
                        HeaderOf(payload)[j] = label /\ j <= Len(row)}}

\* the data rows whose code column holds the code looked up
MatchingRows(payload, code) ==
    {k \in 1..Len(FetchTpexLatestAll(payload).rows) :
        code \in CellsUnder(payload, FetchTpexLatestAll(payload).rows[k], "code")}

\* C9: the secondary lookup fails closed.  It never raises; it gives absent
\* close, change and name when no row's code column equals the symbol or the
\* header has no code column; a value whose own column label is missing from the
\* header is absent; and a close it gives is read from the close column of a
\* row whose code column equals the symbol, never from another column.
C9_FailsClosed ==
    (pc = "secondary" /\ sResult.kind # "pending") =>
        /\ sResult.kind # "raise"
        /\ (~HasLabel(sPayload, "code") \/ MatchingRows(sPayload, sCode) = {}) =>
                (sResult.close = None /\ sResult.change = None /\ sResult.name = None)
        /\ ~HasLabel(sPayload, "close") => sResult.close = None
        /\ ~HasLabel(sPayload, "change") => sResult.change = None
        /\ ~HasLabel(sPayload, "name") => sResult.name = None
        /\ sResult.close # None =>
                \E k \in MatchingRows(sPayload, sCode) :
                    \E c \in CellsUnder(sPayload, FetchTpexLatestAll(sPayload).rows[k], "close") :
                        sResult.close = ParseFloat(c)

-----------------------------------------------------------------------------
(* Claims about the ledger *)

RECURSIVE SumLots(_)
\* sum(delta_i) over a transaction list
SumLots(ts) == IF ts = <<>> THEN 0 ELSE ts[1][1] + SumLots(Tail(ts))

RECURSIVE SumCost(_)
\* sum(delta_i * price_i) over a transaction list
SumCost(ts) == IF ts = <<>> THEN 0 ELSE ts[1][1] * ts[1][2] + SumCost(Tail(ts))

\* C5 as stated: for any sequence of add_holding calls on one symbol that ends
\* with a stored quantity > 0, the stored avg_cost is the quantity-weighted mean
\* sum(delta_i * price_i) / sum(delta_i) of all the calls.  Read in the claim's
\* favour, with the rounding tolerance its source sentence allows: it is asked
\* only of rows no save has rounded.
C5_WeightedMeanAnySequence ==
    \A i \in 1..Len(holdingsFile) :
        LET r == holdingsFile[i]
        IN  (r.lots > 0 /\ ~lossy[r.code]) =>
                r.avg_cost * SumLots(txns[r.code]) = SumCost(txns[r.code])

\* C5 amended: the stored avg_cost is the quantity-weighted mean of all the
\* calls when the sequence ends with a quantity > 0, no call on the existing
\* position drove its quantity to 0 or below (no re-base), and no save
\* rounded the row's lots or avg_cost at the fourth decimal.
C5_WeightedMeanNoRebase ==
    \A i \in 1..Len(holdingsFile) :
        LET r == holdingsFile[i]
        IN  (r.lots > 0 /\ ~rebased[r.code] /\ ~lossy[r.code]) =>
                /\ r.lots = SumLots(txns[r.code])
                /\ r.avg_cost * SumLots(txns[r.code]) = SumCost(txns[r.code])

\* C5 witness: a position built by three calls, a sale among them, at two
\* different prices, never re-based and never rounded, ending long.
C5_Witness ==
    \E i \in 1..Len(holdingsFile) :
        LET r == holdingsFile[i]
            ts == txns[r.code]
        IN  /\ r.lots > 0 /\ ~rebased[r.code] /\ ~lossy[r.code]
            /\ Len(ts) = 3
            /\ \E j \in 1..3 : ts[j][1] < 0
            /\ \E j, k \in 1..3 : ts[j][2] # ts[k][2]
            /\ r.avg_cost # ts[3][2]

=============================================================================
